---- MODULE Spec2Model ----
(***************************************************************************)
(* Model of src/utils/cache/cache.go: an in-memory key/value cache with    *)
(* per-item expiration, a sync.RWMutex around the item map, an optional    *)
(* eviction hook (onEvicted) and an optional janitor goroutine that calls  *)
(* DeleteExpired on every tick of a ticker.                                *)
(*                                                                         *)
(* Time is the value of time.Now().UnixNano(), a positive integer that     *)
(* only grows.  Every method call is made by a goroutine (a caller or the  *)
(* janitor).  A method that reads the clock before c.mu.Lock() (Set,       *)
(* DeleteExpired) is entered first and runs its critical section as a      *)
(* second step; every critical section is one step that is enabled when    *)
(* the mutex is free.  Delete leaves the mutex held while the eviction     *)
(* hook runs, as its deferred Unlock does.                                 *)
(***************************************************************************)
EXTENDS Integers, FiniteSets, Sequences, TLC

\* ------------------------------------------------------------- bounds
MaxTime == 3
MaxTTL == 1
MaxOps == 2
MaxSweeps == 1

\* ------------------------------------------------------------- constants
NoExpiration == -1
DefaultExpiration == 0

Keys == {"a", "b"}
Vals == {"v1", "v2"}
Nil == "nil"
Callers == {"t1", "t2"}
\* Each caller writes a value of its own, so that concurrent writers write
\* distinct values.
ValueOf == [t \in Callers |-> IF t = "t1" THEN "v1" ELSE "v2"]
Jan == "jan"
Threads == Callers \cup {Jan}
Free == "free"

\* The values a caller may install as eviction hook: no hook, a hook that
\* only records its arguments, a hook that calls Get on the same cache.
NilFn == "nilfn"
PlainFn == "plain"
ReentFn == "reent"
Funcs == {NilFn, PlainFn, ReentFn}

Durations == {NoExpiration, DefaultExpiration} \cup (1..MaxTTL)

\* Item{Object, Expiration}; NoItem stands for "k is not in the map".
NoItem == [Object |-> Nil, Expiration |-> -1]
Item(x, e) == [Object |-> x, Expiration |-> e]

NoCall == [op |-> "none", k |-> "a", x |-> Nil, d |-> 0]
NoLast == [op |-> "none", k |-> "a", val |-> Nil, found |-> FALSE, err |-> "none"]
NoLocal == [now |-> 0, e |-> 0]
NoGhost == [op |-> "none", val |-> Nil, d |-> 0, deadline |-> 0]
NoScan == [removed |-> {}, hook |-> NilFn, called |-> << >>]

VARIABLES
    cleanupInterval,    \* the cleanupInterval the cache was created with
    now,                \* time.Now().UnixNano()
    defaultExpiration,  \* cache.defaultExpiration
    items,              \* cache.items
    mu,                 \* cache.mu: Free or the goroutine holding the write lock
    onEvicted,          \* cache.onEvicted
    stop,               \* janitor.stop, an unbuffered channel
    pc,                 \* where each goroutine is
    call,               \* the method a goroutine is inside, and its arguments
    local,              \* the method's locals: the clock value it read, and Set's e
    evictedItems,       \* DeleteExpired's evictedItems, not yet passed to the hook
    running,            \* the hook function a goroutine is executing
    opsLeft,            \* calls the callers may still make
    sweepsLeft,         \* ticks the janitor's ticker may still deliver
    last,               \* history: the critical section executed last, and what it returned
    intended,           \* history: per key, the last write and the deadline its ttl asked for
    scan                \* per goroutine, the c.onEvicted its Delete/DeleteExpired saw under the lock; history: what it removed and passed to the hook

vars == <<cleanupInterval, now, defaultExpiration, items, mu, onEvicted, stop, pc, call, local,
          evictedItems, running, opsLeft, sweepsLeft, last, intended, scan>>

\* ------------------------------------------------------------- pure code

\* newCache: a default of 0 becomes -1.
newCache(de) == IF de = 0 THEN -1 ELSE de

\* newCacheWithJanitor: the janitor goroutine is started, and waits in its
\* select, iff ci > 0; otherwise there is none.
newCacheWithJanitor_ZeroStarts(ci) == IF ci >= 0 THEN "wait" ELSE "off"
newCacheWithJanitor(ci) == IF ci > 0 THEN "wait" ELSE "off"

\* The test `v.Expiration > 0 && now > v.Expiration` of DeleteExpired.
ExpiredAt_NoNeverTest(item, t) == t > item.Expiration
ExpiredAt_Inclusive(item, t) == item.Expiration > 0 /\ t >= item.Expiration
ExpiredAt(item, t) == item.Expiration > 0 /\ t > item.Expiration

\* cache.get, also the body of Get: (item.Object, true) for a stored item that
\* has no expiration or whose expiration is not before t, else (nil, false).
get_IgnoresExpiration(its, k, t) ==
    IF its[k] = NoItem THEN [val |-> Nil, found |-> FALSE]
    ELSE [val |-> its[k].Object, found |-> TRUE]
get(its, k, t) ==
    IF its[k] = NoItem THEN [val |-> Nil, found |-> FALSE]
    ELSE IF its[k].Expiration > 0 /\ t > its[k].Expiration
         THEN [val |-> Nil, found |-> FALSE]
         ELSE [val |-> its[k].Object, found |-> TRUE]

\* time.Time values: time.Unix(0, ns), and the zero value time.Time{}.
Unix(ns) == [zero |-> FALSE, ns |-> ns]
ZeroTime == [zero |-> TRUE, ns |-> 0]

\* What Get returns, computed under the lock at time t.
GetLocked(its, k, t) ==
    IF its[k] = NoItem THEN [val |-> Nil, found |-> FALSE]
    ELSE IF its[k].Expiration > 0
         THEN IF t > its[k].Expiration
              THEN [val |-> Nil, found |-> FALSE]
              ELSE [val |-> its[k].Object, found |-> TRUE]
         ELSE [val |-> its[k].Object, found |-> TRUE]

\* What GetWithExpiration returns, computed under the lock at time t.
GetWithExpirationLocked_EpochForNever(its, k, t) ==
    IF its[k] = NoItem THEN [val |-> Nil, exp |-> ZeroTime, found |-> FALSE]
    ELSE IF its[k].Expiration > 0 /\ t > its[k].Expiration
         THEN [val |-> Nil, exp |-> ZeroTime, found |-> FALSE]
         ELSE [val |-> its[k].Object, exp |-> Unix(its[k].Expiration), found |-> TRUE]
GetWithExpirationLocked(its, k, t) ==
    IF its[k] = NoItem THEN [val |-> Nil, exp |-> ZeroTime, found |-> FALSE]
    ELSE IF its[k].Expiration > 0
         THEN IF t > its[k].Expiration
              THEN [val |-> Nil, exp |-> ZeroTime, found |-> FALSE]
              ELSE [val |-> its[k].Object, exp |-> Unix(its[k].Expiration), found |-> TRUE]
         ELSE [val |-> its[k].Object, exp |-> ZeroTime, found |-> TRUE]

\* What Items returns, computed under the read lock at time t: a map made by
\* Items itself (fresh), holding the stored items that do not expire or whose
\* expiration is not before t.
ItemsLocked_ReturnsInternal(its, t) ==
    [fresh |-> FALSE, m |-> [k \in {q \in Keys : its[q] # NoItem} |-> its[k]]]
ItemsLocked(its, t) ==
    LET kept == {k \in Keys : its[k] # NoItem /\ ~(its[k].Expiration > 0 /\ t > its[k].Expiration)}
    IN  [fresh |-> TRUE, m |-> [k \in kept |-> its[k]]]

\* What Objects returns: as Items, with the objects only.
ObjectsLocked(its, t) ==
    LET kept == {k \in Keys : its[k] # NoItem /\ ~(its[k].Expiration > 0 /\ t > its[k].Expiration)}
    IN  [fresh |-> TRUE, m |-> [k \in kept |-> its[k].Object]]

\* The expiration Set computes before it takes the lock:
\* d == DefaultExpiration means c.defaultExpiration; e = now + d if d > 0, else 0.
SetExpiration_NoAdd(d, de, t) ==
    LET dd == IF d = DefaultExpiration THEN de ELSE d
    IN  IF dd > 0 THEN t ELSE 0
SetExpiration(d, de, t) ==
    LET dd == IF d = DefaultExpiration THEN de ELSE d
    IN  IF dd > 0 THEN t + dd ELSE 0

\* cache.set, the unlocked write of Add and Replace: e = time.Now().UnixNano()
\* if d > 0 (the duration is not added), else 0.
set(its, k, x, d, de, t) ==
    LET dd == IF d = DefaultExpiration THEN de ELSE d
        e == IF dd > 0 THEN t ELSE 0
    IN  [its EXCEPT ![k] = Item(x, e)]

\* cache.delete: removes k; reports (object, true) only if a hook is installed
\* and k was stored.
delete_KeepsWithoutHook(its, k, hook) ==
    IF hook # NilFn /\ its[k] # NoItem
    THEN [items |-> [its EXCEPT ![k] = NoItem], val |-> its[k].Object, evicted |-> TRUE]
    ELSE [items |-> its, val |-> Nil, evicted |-> FALSE]
delete_NeverEvicted(its, k, hook) ==
    [items |-> [its EXCEPT ![k] = NoItem], val |-> Nil, evicted |-> FALSE]
delete(its, k, hook) ==
    IF hook # NilFn /\ its[k] # NoItem
    THEN [items |-> [its EXCEPT ![k] = NoItem], val |-> its[k].Object, evicted |-> TRUE]
    ELSE [items |-> [its EXCEPT ![k] = NoItem], val |-> Nil, evicted |-> FALSE]

\* The locked loop of DeleteExpired over the keys still to visit.
RECURSIVE deleteExpiredLoop(_, _, _, _, _)
deleteExpiredLoop(its, todo, hook, t, acc) ==
    IF todo = {} THEN [items |-> its, evictedItems |-> acc]
    ELSE LET k == CHOOSE q \in todo : TRUE
         IN  IF its[k] # NoItem /\ ExpiredAt(its[k], t)
             THEN LET r == delete(its, k, hook)
                  IN  deleteExpiredLoop(r.items, todo \ {k}, hook, t,
                          IF r.evicted THEN acc \cup {<<k, r.val>>} ELSE acc)
             ELSE deleteExpiredLoop(its, todo \ {k}, hook, t, acc)

\* len(c.items)
ItemCount(its) == Cardinality({k \in Keys : its[k] # NoItem})

\* The deadline a write at time t with duration d asks for: t + d for a
\* positive (resolved) duration, 0 (never) otherwise.
Deadline(d, de, t) ==
    LET dd == IF d = DefaultExpiration THEN de ELSE d
    IN  IF dd > 0 THEN t + dd ELSE 0

\* The (key, object) pairs that are stored in a and no longer in b.
Removed(a, b) == {<<k, a[k].Object>> : k \in {q \in Keys : a[q] # NoItem /\ b[q] = NoItem}}

\* A call through a nil func value panics, and the panic ends the process.
Panicked == \E t \in Threads : pc[t] = "panicked"

Call(op, k, x, d) == [op |-> op, k |-> k, x |-> x, d |-> d]

\* The record of a critical section of method op on key k and what it returns.
Last(op, k, val, found, err) ==
    [op |-> op, k |-> k, val |-> val, found |-> found, err |-> err]

\* The record of a critical section of method op that returns ret.
LastRet(op, k, ret) ==
    [op |-> op, k |-> k, val |-> Nil, found |-> FALSE, err |-> "none", ret |-> ret]

\* The record of a write of x to a key at time t with duration d.
Wrote(op, x, d, t) ==
    [op |-> op, val |-> x, d |-> d, deadline |-> Deadline(d, defaultExpiration, t)]

\* ------------------------------------------------------------- initial state

\* A map a caller may hand to NewFrom: one item that expires, one that never
\* does.
Snapshot == [k \in Keys |-> IF k = "a" THEN Item("v0", 1 + MaxTTL) ELSE Item("v0", 0)]

\* New(defaultExpiration, cleanupInterval) with an empty map, or
\* NewFrom(defaultExpiration, cleanupInterval, items); no hook; the janitor
\* started ("wait") iff cleanupInterval > 0.
Init ==
    /\ cleanupInterval \in {-1, 0, 1}
    /\ now = 1
    /\ defaultExpiration \in {newCache(de) : de \in {NoExpiration, DefaultExpiration, MaxTTL}}
    /\ items \in {[k \in Keys |-> NoItem], Snapshot}
    /\ mu = Free
    /\ onEvicted = NilFn
    /\ stop = "empty"
    /\ pc = [t \in Threads |-> IF t = Jan THEN newCacheWithJanitor(cleanupInterval) ELSE "idle"]
    /\ call = [t \in Threads |-> NoCall]
    /\ local = [t \in Threads |-> NoLocal]
    /\ evictedItems = [t \in Threads |-> {}]
    /\ running = [t \in Threads |-> NilFn]
    /\ opsLeft = MaxOps
    /\ sweepsLeft = MaxSweeps
    /\ last = NoLast
    /\ intended = [k \in Keys |-> NoGhost]
    /\ scan = [t \in Threads |-> NoScan]

\* ------------------------------------------------------------- steps

\* The clock advances.
Tick ==
    /\ ~Panicked
    /\ now < MaxTime
    /\ now' = now + 1
    /\ UNCHANGED <<cleanupInterval, sweepsLeft, defaultExpiration, items, mu, onEvicted, stop, pc, call, local,
                   evictedItems, running, opsLeft, last, intended, scan>>

\* A caller that is between calls makes its next call.  A caller needs the
\* *Cache to make a call, and the finalizer runs once the *Cache is
\* unreachable: no call begins after stopJanitor has.
Begin(t) ==
    /\ ~Panicked
    /\ pc[t] = "idle"
    /\ stop = "empty"
    /\ opsLeft > 0
    /\ opsLeft' = opsLeft - 1

\* A goroutine inside method op, at its c.mu.Lock(), gets the lock.
AtLock(t, op) ==
    /\ ~Panicked
    /\ pc[t] = "entered"
    /\ call[t].op = op
    /\ mu = Free

\* The method returns: the goroutine is between calls again (the janitor is
\* back in its select).
Returned(t) ==
    /\ pc' = [pc EXCEPT ![t] = IF t = Jan THEN "wait" ELSE "idle"]
    /\ call' = [call EXCEPT ![t] = NoCall]
    /\ local' = [local EXCEPT ![t] = NoLocal]

\* Set up to c.mu.Lock(): e is computed from the clock and d.
SetEnter(t, k, x, d) ==
    /\ Begin(t)
    /\ pc' = [pc EXCEPT ![t] = "entered"]
    /\ call' = [call EXCEPT ![t] = Call("Set", k, x, d)]
    /\ local' = [local EXCEPT ![t] =
                    [now |-> now, e |-> SetExpiration(d, defaultExpiration, now)]]
    /\ UNCHANGED <<cleanupInterval, sweepsLeft, now, defaultExpiration, items, mu, onEvicted, stop, evictedItems,
                   running, last, intended, scan>>

\* Set from c.mu.Lock(): c.items[k] = Item{x, e}.
Set(t) ==
    /\ AtLock(t, "Set")
    /\ items' = [items EXCEPT ![call[t].k] = Item(call[t].x, local[t].e)]
    /\ intended' = [intended EXCEPT ![call[t].k] =
                       Wrote("Set", call[t].x, call[t].d, local[t].now)]
    /\ last' = Last("Set", call[t].k, Nil, FALSE, "none")
    /\ Returned(t)
    /\ UNCHANGED <<cleanupInterval, sweepsLeft, now, defaultExpiration, mu, onEvicted, stop, evictedItems, running,
                   opsLeft, scan>>

\* Add: under the write lock, an error if get finds k, else set.
Add(t, k, x, d) ==
    /\ Begin(t)
    /\ mu = Free
    /\ LET r == get(items, k, now)
       IN  IF r.found
           THEN /\ last' = Last("Add", k, Nil, FALSE, "KeyExists")
                /\ UNCHANGED <<items, intended>>
           ELSE /\ items' = set(items, k, x, d, defaultExpiration, now)
                /\ intended' = [intended EXCEPT ![k] = Wrote("Add", x, d, now)]
                /\ last' = Last("Add", k, Nil, FALSE, "nil")
    /\ UNCHANGED <<cleanupInterval, sweepsLeft, now, defaultExpiration, mu, onEvicted, stop, pc, call, local,
                   evictedItems, running, scan>>

\* Replace: under the write lock, an error unless get finds k, else set.
Replace(t, k, x, d) ==
    /\ Begin(t)
    /\ mu = Free
    /\ LET r == get(items, k, now)
       IN  IF ~r.found
           THEN /\ last' = Last("Replace", k, Nil, FALSE, "KeyNotFound")
                /\ UNCHANGED <<items, intended>>
           ELSE /\ items' = set(items, k, x, d, defaultExpiration, now)
                /\ intended' = [intended EXCEPT ![k] = Wrote("Replace", x, d, now)]
                /\ last' = Last("Replace", k, Nil, FALSE, "nil")
    /\ UNCHANGED <<cleanupInterval, sweepsLeft, now, defaultExpiration, mu, onEvicted, stop, pc, call, local,
                   evictedItems, running, scan>>

\* SetDefault: c.Set(k, x, DefaultExpiration).
SetDefault(t, k, x) == SetEnter(t, k, x, DefaultExpiration)

\* Get: the lookup under the (write) lock.
Get(t, k) ==
    /\ Begin(t)
    /\ mu = Free
    /\ LET r == GetLocked(items, k, now)
       IN  last' = Last("Get", k, r.val, r.found, "none")
    /\ UNCHANGED <<cleanupInterval, sweepsLeft, now, defaultExpiration, items, mu, onEvicted, stop, pc, call, local,
                   evictedItems, running, intended, scan>>

\* GetWithExpiration: the lookup under the (write) lock.
GetWithExpiration(t, k) ==
    /\ Begin(t)
    /\ mu = Free
    /\ last' = LastRet("GetWithExpiration", k, GetWithExpirationLocked(items, k, now))
    /\ UNCHANGED <<cleanupInterval, sweepsLeft, now, defaultExpiration, items, mu, onEvicted,
                   stop, pc, call, local, evictedItems, running, intended, scan>>

\* Items, Objects and ItemCount: under the read lock, which no goroutine gets
\* while another holds the write lock.
Items(t) ==
    /\ Begin(t)
    /\ mu = Free
    /\ last' = LastRet("Items", "a", ItemsLocked(items, now))
    /\ UNCHANGED <<cleanupInterval, sweepsLeft, now, defaultExpiration, items, mu, onEvicted,
                   stop, pc, call, local, evictedItems, running, intended, scan>>

Objects(t) ==
    /\ Begin(t)
    /\ mu = Free
    /\ last' = LastRet("Objects", "a", ObjectsLocked(items, now))
    /\ UNCHANGED <<cleanupInterval, sweepsLeft, now, defaultExpiration, items, mu, onEvicted,
                   stop, pc, call, local, evictedItems, running, intended, scan>>

ItemCountCall(t) ==
    /\ Begin(t)
    /\ mu = Free
    /\ last' = LastRet("ItemCount", "a", ItemCount(items))
    /\ UNCHANGED <<cleanupInterval, sweepsLeft, now, defaultExpiration, items, mu, onEvicted,
                   stop, pc, call, local, evictedItems, running, intended, scan>>

\* Delete: takes the write lock, deletes k and, if delete reports an eviction,
\* calls c.onEvicted(k, v); the deferred Unlock runs when Delete returns, so
\* the hook runs with the lock held.
Delete(t, k) ==
    /\ Begin(t)
    /\ mu = Free
    /\ LET r == delete(items, k, onEvicted)
       IN  /\ items' = r.items
           /\ intended' = [intended EXCEPT ![k] = NoGhost]
           /\ IF r.evicted
              THEN /\ mu' = t
                   /\ pc' = [pc EXCEPT ![t] = "hook"]
                   /\ call' = [call EXCEPT ![t] = Call("Delete", k, Nil, 0)]
                   /\ running' = [running EXCEPT ![t] = onEvicted]
                   /\ scan' = [scan EXCEPT ![t] =
                                  [removed |-> Removed(items, r.items), hook |-> onEvicted,
                                   called |-> << <<k, r.val>> >>]]
              ELSE UNCHANGED <<mu, pc, call, running, scan>>
    /\ last' = Last("Delete", k, Nil, FALSE, "none")
    /\ UNCHANGED <<cleanupInterval, sweepsLeft, now, defaultExpiration, onEvicted, stop, local, evictedItems>>

\* DeleteExpired up to c.mu.Lock(): now is read from the clock.
DeleteExpiredEnter(t) ==
    /\ Begin(t)
    /\ pc' = [pc EXCEPT ![t] = "entered"]
    /\ call' = [call EXCEPT ![t] = Call("DeleteExpired", "a", Nil, 0)]
    /\ local' = [local EXCEPT ![t] = [now |-> now, e |-> 0]]
    /\ UNCHANGED <<cleanupInterval, sweepsLeft, now, defaultExpiration, items, mu, onEvicted, stop, evictedItems,
                   running, last, intended, scan>>

\* DeleteExpired, from c.mu.Lock() to c.mu.Unlock(): the scan with the now
\* read on entry.
DeleteExpired(t) ==
    /\ AtLock(t, "DeleteExpired")
    /\ LET r == deleteExpiredLoop(items, Keys, onEvicted, local[t].now, {})
       IN  /\ items' = r.items
           /\ evictedItems' = [evictedItems EXCEPT ![t] = r.evictedItems]
           /\ scan' = [scan EXCEPT ![t] =
                          [removed |-> Removed(items, r.items), hook |-> onEvicted,
                           called |-> << >>]]
    /\ pc' = [pc EXCEPT ![t] = "loop"]
    /\ last' = Last("DeleteExpired", "a", Nil, FALSE, "none")
    /\ UNCHANGED <<cleanupInterval, sweepsLeft, now, defaultExpiration, mu, onEvicted, stop, call, local, running,
                   opsLeft, intended>>

\* DeleteExpired's second loop, one element: c.onEvicted(v.key, v.value), with
\* c.onEvicted read without the lock.  The read races with the write of
\* OnEvicted: it yields the value c.onEvicted has now or the one this goroutine
\* saw under the lock.  The order is the order of the scan, which is the map's
\* iteration order.
DeleteExpiredHook(t) ==
    /\ ~Panicked
    /\ pc[t] = "loop"
    /\ \E kv \in evictedItems[t], f \in {onEvicted, scan[t].hook} \ {NilFn} :
        /\ evictedItems' = [evictedItems EXCEPT ![t] = @ \ {kv}]
        /\ scan' = [scan EXCEPT ![t].called = Append(@, kv)]
        /\ running' = [running EXCEPT ![t] = f]
    /\ pc' = [pc EXCEPT ![t] = "hook"]
    /\ UNCHANGED <<cleanupInterval, sweepsLeft, now, defaultExpiration, items, mu, onEvicted, stop, call, local,
                   opsLeft, last, intended>>

\* The same call when c.onEvicted is nil by now: a nil func call panics.
DeleteExpiredNilHook(t) ==
    /\ ~Panicked
    /\ pc[t] = "loop"
    /\ onEvicted = NilFn
    /\ evictedItems[t] # {}
    /\ pc' = [pc EXCEPT ![t] = "panicked"]
    /\ UNCHANGED <<cleanupInterval, sweepsLeft, now, defaultExpiration, items, mu, onEvicted, stop, call, local,
                   evictedItems, running, opsLeft, last, intended, scan>>

\* DeleteExpired returns.
DeleteExpiredReturn(t) ==
    /\ ~Panicked
    /\ pc[t] = "loop"
    /\ evictedItems[t] = {}
    /\ scan' = [scan EXCEPT ![t] = NoScan]
    /\ Returned(t)
    /\ UNCHANGED <<cleanupInterval, sweepsLeft, now, defaultExpiration, items, mu, onEvicted, stop, evictedItems,
                   running, opsLeft, last, intended>>

\* The hook returns.  PlainFn returns at once; ReentFn calls c.Get, which
\* needs the lock.  After Delete's hook the deferred Unlock runs and Delete
\* returns; after DeleteExpired's the loop goes on.
HookReturn(t) ==
    /\ ~Panicked
    /\ pc[t] = "hook"
    /\ running[t] = PlainFn \/ (running[t] = ReentFn /\ mu = Free)
    /\ running' = [running EXCEPT ![t] = NilFn]
    /\ IF call[t].op = "Delete"
       THEN /\ mu' = Free
            /\ scan' = [scan EXCEPT ![t] = NoScan]
            /\ Returned(t)
       ELSE /\ pc' = [pc EXCEPT ![t] = "loop"]
            /\ UNCHANGED <<mu, call, local, scan>>
    /\ UNCHANGED <<cleanupInterval, sweepsLeft, now, defaultExpiration, items, onEvicted, stop, evictedItems,
                   opsLeft, last, intended>>

\* OnEvicted: c.onEvicted = f under the write lock.
OnEvicted(t, f) ==
    /\ Begin(t)
    /\ mu = Free
    /\ onEvicted' = f
    /\ last' = Last("OnEvicted", "a", Nil, FALSE, "none")
    /\ UNCHANGED <<cleanupInterval, sweepsLeft, now, defaultExpiration, items, mu, stop, pc, call, local,
                   evictedItems, running, intended, scan>>

\* Flush: c.items = map[string]Item{} under the write lock.
Flush_KeepsNeverExpiring(t) ==
    /\ Begin(t)
    /\ mu = Free
    /\ items' = [k \in Keys |-> IF items[k].Expiration = 0 THEN items[k] ELSE NoItem]
    /\ intended' = [k \in Keys |-> NoGhost]
    /\ last' = Last("Flush", "a", Nil, FALSE, "none")
    /\ UNCHANGED <<cleanupInterval, sweepsLeft, now, defaultExpiration, mu, onEvicted, stop,
                   pc, call, local, evictedItems, running, scan>>
Flush(t) ==
    /\ Begin(t)
    /\ mu = Free
    /\ items' = [k \in Keys |-> NoItem]
    /\ intended' = [k \in Keys |-> NoGhost]
    /\ last' = Last("Flush", "a", Nil, FALSE, "none")
    /\ UNCHANGED <<cleanupInterval, sweepsLeft, now, defaultExpiration, mu, onEvicted, stop, pc, call, local,
                   evictedItems, running, scan>>

\* janitor.Run, case <-ticker.C: c.DeleteExpired() is entered.
JanitorTick ==
    /\ ~Panicked
    /\ pc[Jan] = "wait"
    /\ sweepsLeft > 0
    /\ sweepsLeft' = sweepsLeft - 1
    /\ pc' = [pc EXCEPT ![Jan] = "entered"]
    /\ call' = [call EXCEPT ![Jan] = Call("DeleteExpired", "a", Nil, 0)]
    /\ local' = [local EXCEPT ![Jan] = [now |-> now, e |-> 0]]
    /\ UNCHANGED <<cleanupInterval, now, defaultExpiration, items, mu, onEvicted, stop, evictedItems,
                   running, opsLeft, last, intended, scan>>

\* stopJanitor (the finalizer, run once, while calls made before may still be
\* in progress): c.janitor.stop <- true, a send on an unbuffered channel, which
\* waits for the receiver.
stopJanitor ==
    /\ ~Panicked
    /\ pc[Jan] # "off"
    /\ stop = "empty"
    /\ stop' = "sending"
    /\ UNCHANGED <<cleanupInterval, sweepsLeft, now, defaultExpiration, items, mu, onEvicted, pc, call, local,
                   evictedItems, running, opsLeft, last, intended, scan>>

\* janitor.Run, case <-j.stop: the ticker is stopped and Run returns.
JanitorStop ==
    /\ ~Panicked
    /\ pc[Jan] = "wait"
    /\ stop = "sending"
    /\ stop' = "received"
    /\ pc' = [pc EXCEPT ![Jan] = "stopped"]
    /\ UNCHANGED <<cleanupInterval, sweepsLeft, now, defaultExpiration, items, mu, onEvicted, call, local,
                   evictedItems, running, opsLeft, last, intended, scan>>

\* A caller makes a call.
Enter(t) ==
    \/ \E k \in Keys, d \in Durations : SetEnter(t, k, ValueOf[t], d)
    \/ \E k \in Keys, d \in Durations : Add(t, k, ValueOf[t], d)
    \/ \E k \in Keys, d \in Durations : Replace(t, k, ValueOf[t], d)
    \/ \E k \in Keys : SetDefault(t, k, ValueOf[t])
    \/ \E k \in Keys : Get(t, k)
    \/ \E k \in Keys : GetWithExpiration(t, k)
    \/ Items(t)
    \/ Objects(t)
    \/ ItemCountCall(t)
    \/ \E k \in Keys : Delete(t, k)
    \/ DeleteExpiredEnter(t)
    \/ \E f \in Funcs : OnEvicted(t, f)
    \/ Flush(t)

\* A goroutine that is inside a method goes on.
Step(t) ==
    \/ Set(t)
    \/ DeleteExpired(t)
    \/ DeleteExpiredHook(t)
    \/ DeleteExpiredNilHook(t)
    \/ DeleteExpiredReturn(t)
    \/ HookReturn(t)

Next ==
    \/ Tick
    \/ \E t \in Callers : Enter(t)
    \/ \E t \in Threads : Step(t)
    \/ JanitorTick
    \/ stopJanitor
    \/ JanitorStop

Spec == Init /\ [][Next]_vars

\* Every goroutine that can take a step eventually takes one: the Go
\* scheduler runs every runnable goroutine, and a goroutine waiting in
\* c.mu.Lock() gets the mutex once it is free often enough (sync.Mutex hands
\* the lock to a starving waiter).
FairSpec == Spec /\ \A t \in Threads : SF_vars(Step(t))

\* ------------------------------------------------------------- claims

\* The entry stored under k has a ttl that has not passed at time t: by the
\* deadline its write asked for, or for an item that came with NewFrom, by its
\* Expiration.
TtlNotPassed(k, t) ==
    /\ items[k] # NoItem
    /\ IF intended[k].op = "none"
       THEN items[k].Expiration = 0 \/ t <= items[k].Expiration
       ELSE intended[k].deadline = 0 \/ t <= intended[k].deadline

\* The entry stored under k is live at time t by its stored expiresAt.
StoredLive(k, t) ==
    /\ items[k] # NoItem
    /\ items[k].Expiration = 0 \/ t <= items[k].Expiration

\* C1: when two callers add the same key, absent before, with the same ttl
\* and distinct values, the one that comes second (within the ttl of the
\* first) fails with KeyExists and the first one's value stays stored.
C1_ExactlyOneAddSucceeds ==
    [][\A t \in Callers, k \in Keys, d \in Durations :
          ( /\ Add(t, k, ValueOf[t], d)
            /\ opsLeft = MaxOps - 1
            /\ sweepsLeft = MaxSweeps
            /\ \A q \in Keys \ {k} : items[q] = NoItem
            /\ intended[k].op = "Add"
            /\ intended[k].d = d
            /\ intended[k].val # ValueOf[t]
            /\ intended[k].deadline = 0 \/ now <= intended[k].deadline )
          => /\ last'.err = "KeyExists"
             /\ items'[k] # NoItem
             /\ items'[k].Object = intended[k].val]_vars

\* C2: add on a key that holds an entry whose ttl has not passed fails with
\* KeyExists and leaves the store as it is.
C2_AddRefusedOnLiveKey ==
    [][\A t \in Callers, k \in Keys, d \in Durations :
          (Add(t, k, ValueOf[t], d) /\ TtlNotPassed(k, now))
          => (last'.err = "KeyExists" /\ items' = items)]_vars

\* C3: after Set(k, v, ttl) with ttl > 0 at time T0 and no later write, delete
\* or flush of k, Get(k) at time T returns (v, true) if T <= T0 + ttl and
\* (nil, false) if T > T0 + ttl, whether or not the item is still stored.
C3_GetAfterSet ==
    [][\A t \in Callers, k \in Keys :
          (Get(t, k) /\ intended[k].op = "Set" /\ intended[k].deadline > 0)
          => IF now <= intended[k].deadline
             THEN last'.found /\ last'.val = intended[k].val
             ELSE ~last'.found /\ last'.val = Nil]_vars

\* Witness of C3: a Get at exactly T0 + ttl found the value that was set.
C3_Witness ==
    /\ last.op = "Get"
    /\ last.found
    /\ intended[last.k].op = "Set"
    /\ intended[last.k].deadline = now
    /\ last.val = intended[last.k].val

\* Some goroutine writes k, deletes k or flushes in this step.
Overwrites(k) ==
    \E t \in Callers :
        \/ Set(t) /\ call[t].k = k
        \/ \E d \in Durations : Add(t, k, ValueOf[t], d) /\ last'.err = "nil"
        \/ \E d \in Durations : Replace(t, k, ValueOf[t], d) /\ last'.err = "nil"
        \/ Delete(t, k)
        \/ Flush(t)

\* C4: an item that never expires stays stored, unchanged, through every step
\* that is not a delete of its key, a flush or a write of its key, and Get
\* returns its value.
C4_NeverExpires ==
    [][\A k \in Keys :
          (items[k] # NoItem /\ items[k].Expiration = 0)
          => /\ items'[k] = items[k] \/ Overwrites(k)
             /\ \A t \in Callers :
                    Get(t, k) => (last'.found /\ last'.val = items[k].Object)]_vars

\* Witness of C4: at the latest time, after the janitor's sweep, a Get found
\* an item that never expires.
C4_Witness ==
    /\ last.op = "Get"
    /\ last.found
    /\ items[last.k] # NoItem
    /\ items[last.k].Expiration = 0
    /\ now = MaxTime
    /\ sweepsLeft = 0
    /\ pc[Jan] = "wait"

\* C5: Replace overwrites k, and nothing else, iff k holds a live entry (which
\* is then an entry whose ttl has not passed); otherwise it fails with
\* KeyNotFound and the store is unchanged.
C5_Replace ==
    [][\A t \in Callers, k \in Keys, d \in Durations :
          Replace(t, k, ValueOf[t], d)
          => IF StoredLive(k, now)
             THEN /\ last'.err = "nil"
                  /\ TtlNotPassed(k, now)
                  /\ items'[k] # NoItem
                  /\ items'[k].Object = ValueOf[t]
                  /\ \A q \in Keys \ {k} : items'[q] = items[q]
             ELSE /\ last'.err = "KeyNotFound"
                  /\ items' = items]_vars

\* Witness of C5: a Replace was refused on a key whose expired item is still
\* stored.
C5_Witness ==
    /\ last.op = "Replace"
    /\ last.err = "KeyNotFound"
    /\ items[last.k] # NoItem
    /\ ~StoredLive(last.k, now)

\* C6: a goroutine that is executing the eviction hook does not hold the
\* store's lock.
C6_HookRunsUnlocked == \A t \in Threads : pc[t] = "hook" => mu # t

\* C7: every call a caller makes returns (unless the process has ended).
C7_EveryCallReturns ==
    \A t \in Callers : (pc[t] # "idle") ~> (pc[t] = "idle" \/ Panicked)

\* C8: the scan of DeleteExpired, with T the time it read, removes exactly the
\* stored items that expire and whose expiration is before T; every other key
\* keeps its item, with or without a hook.
C8_DeleteExpiredRemoves ==
    [][\A t \in Threads :
          DeleteExpired(t)
          => \A k \in Keys :
                items'[k] = IF /\ items[k] # NoItem
                               /\ items[k].Expiration # 0
                               /\ items[k].Expiration < local[t].now
                            THEN NoItem
                            ELSE items[k]]_vars

\* Witness of C8: with no hook installed, a scan has removed an item and kept
\* another.
C8_Witness ==
    \E t \in Threads :
        /\ pc[t] = "loop"
        /\ scan[t].hook = NilFn
        /\ scan[t].removed # {}
        /\ \E k \in Keys : items[k] # NoItem

\* The entries a DeleteExpired with a hook removed are those it has passed to
\* the hook, once each, and those it still holds to pass.
PassedOnce(t) ==
    (pc[t] \in {"loop", "hook"} /\ call[t].op = "DeleteExpired" /\ scan[t].hook # NilFn)
    => LET called == scan[t].called
           passed == {called[i] : i \in 1..Len(called)}
       IN  /\ Cardinality(passed) = Len(called)
           /\ passed \cap evictedItems[t] = {}
           /\ passed \cup evictedItems[t] = scan[t].removed

\* C9: with a hook installed, DeleteExpired passes every entry it removed to
\* the hook exactly once, with its key and value; right after the scan the
\* removed keys are not found and the item count is down by their number.
C9_EvictedExactlyOnce ==
    [][/\ \A t \in Threads : PassedOnce(t)'
       /\ \A t \in Threads :
              (DeleteExpired(t) /\ onEvicted # NilFn)
              => /\ ItemCount(items') = ItemCount(items) - Cardinality(evictedItems'[t])
                 /\ \A kv \in evictedItems'[t] :
                        /\ ~get(items', kv[1], now).found
                        /\ kv[2] = items[kv[1]].Object]_vars

\* Witness of C9: a DeleteExpired is about to return after passing two removed
\* entries to the hook.
C9_Witness ==
    \E t \in Threads :
        /\ pc[t] = "loop"
        /\ call[t].op = "DeleteExpired"
        /\ evictedItems[t] = {}
        /\ Len(scan[t].called) = 2

\* C10: Delete(k) removes k and leaves every other key as it is; if k was
\* stored and a hook is installed the hook is called once, with k and the
\* stored value, before Delete returns; otherwise no hook is called.
C10_Delete ==
    [][/\ \A t \in Callers, k \in Keys :
              Delete(t, k)
              => /\ items'[k] = NoItem
                 /\ \A q \in Keys \ {k} : items'[q] = items[q]
                 /\ IF items[k] # NoItem /\ onEvicted # NilFn
                    THEN /\ pc'[t] = "hook"
                         /\ running'[t] = onEvicted
                         /\ scan'[t].called = << <<k, items[k].Object>> >>
                    ELSE /\ pc'[t] = "idle"
                         /\ scan'[t].called = << >>
       /\ \A t \in Callers :
              (pc[t] = "hook" /\ call[t].op = "Delete")
              => (scan'[t].called = scan[t].called \/ pc'[t] = "idle")]_vars

\* Witness of C10: Delete has removed a stored key and called the hook, and
\* the other key is still stored.
C10_Witness ==
    \E t \in Callers :
        /\ pc[t] = "hook"
        /\ call[t].op = "Delete"
        /\ Len(scan[t].called) = 1
        /\ items[call[t].k] = NoItem
        /\ \E q \in Keys \ {call[t].k} : items[q] # NoItem

\* C11: Flush leaves no item stored (the item count is 0 and no Get finds a
\* key), calls no hook for any item, also with a hook installed, and leaves the
\* hook and the default expiration as they are.
C11_Flush ==
    [][\A t \in Callers :
          Flush(t)
          => /\ ItemCount(items') = 0
             /\ \A k \in Keys : ~GetLocked(items', k, now').found
             /\ pc'[t] = "idle"
             /\ running' = running
             /\ evictedItems' = evictedItems
             /\ scan' = scan
             /\ onEvicted' = onEvicted
             /\ defaultExpiration' = defaultExpiration]_vars

\* Witness of C11: with a hook installed, a Flush has emptied the store while
\* a DeleteExpired still holds an entry it removed before, to pass to the hook.
C11_Witness ==
    /\ last.op = "Flush"
    /\ onEvicted # NilFn
    /\ ItemCount(items) = 0
    /\ \E t \in Threads : pc[t] = "loop" /\ evictedItems[t] # {}

\* C12: the goroutine that sends the stop signal is not blocked for ever,
\* whether the janitor is idle or in a sweep at that moment: while the send
\* waits, the janitor can receive it, or can go on with its sweep, or waits
\* for a lock whose holder can go on; and a janitor that has stopped is not in
\* a sweep.
C12_StopCanComplete ==
    /\ pc[Jan] = "stopped" => (stop = "received" /\ call[Jan] = NoCall)
    /\
       stop = "sending"
       => \/ Panicked
          \/ ENABLED JanitorStop
          \/ ENABLED Step(Jan)
          \/ \E t \in Callers : mu = t /\ ENABLED Step(t)

\* C13: a cache created with cleanupInterval <= 0 has no janitor, ever, and an
\* expired item of it stays stored, and counted by ItemCount, through every
\* step that is not a Delete of its key, a write of its key, a Flush or the
\* scan of a caller's DeleteExpired.
C13_NoJanitorNoSweep ==
    [][cleanupInterval <= 0
       => /\ pc[Jan] = "off"
          /\ pc'[Jan] = "off"
          /\ \A k \in Keys :
                (items[k] # NoItem /\ ~StoredLive(k, now))
                => \/ /\ items'[k] = items[k]
                      /\ \A t \in Callers : ItemCountCall(t) => last'.ret >= 1
                   \/ Overwrites(k)
                   \/ \E t \in Callers : DeleteExpired(t)]_vars

\* Witness of C13: in a cache created with cleanupInterval 0, ItemCount has
\* counted an item that expired two ticks ago and is still stored.
C13_Witness ==
    /\ cleanupInterval = 0
    /\ last.op = "ItemCount"
    /\ last.ret >= 1
    /\ \E k \in Keys :
        /\ items[k] # NoItem
        /\ items[k].Expiration > 0
        /\ now >= items[k].Expiration + 2

\* C14: a write given DefaultExpiration stores the expiration that the cache's
\* default yields at the time of the write: that time + the default for a
\* positive default, 0 (never) for the never-expire default; SetDefault(k, x)
\* does what Set(k, x, DefaultExpiration) does.
C14_DefaultResolvedAtWrite ==
    [][\A t \in Callers, k \in Keys :
          /\ (Set(t) /\ call[t].k = k /\ call[t].d = DefaultExpiration)
             => items'[k] = Item(call[t].x,
                                 IF defaultExpiration > 0
                                 THEN local[t].now + defaultExpiration ELSE 0)
          /\ ( /\ \/ Add(t, k, ValueOf[t], DefaultExpiration)
                   \/ Replace(t, k, ValueOf[t], DefaultExpiration)
               /\ last'.err = "nil" )
             => items'[k] = Item(ValueOf[t],
                                 IF defaultExpiration > 0
                                 THEN now + defaultExpiration ELSE 0)
          /\ SetDefault(t, k, ValueOf[t]) <=> SetEnter(t, k, ValueOf[t], DefaultExpiration)]_vars

\* C15: at any time, for every key, Get finds the key iff GetWithExpiration
\* finds it iff the key is in the map Items returns iff it is in the map
\* Objects returns iff an item is stored for it that never expires or whose
\* expiration is not before the time; the values agree with the stored item,
\* and GetWithExpiration returns the zero time for an item that never expires
\* and the stored expiration otherwise.
C15_ReadsAgree ==
    \A k \in Keys :
        LET g == GetLocked(items, k, now)
            w == GetWithExpirationLocked(items, k, now)
            i == ItemsLocked(items, now).m
            o == ObjectsLocked(items, now).m
        IN  /\ g.found <=> StoredLive(k, now)
            /\ w.found <=> StoredLive(k, now)
            /\ k \in DOMAIN i <=> StoredLive(k, now)
            /\ k \in DOMAIN o <=> StoredLive(k, now)
            /\ StoredLive(k, now)
               => /\ g.val = items[k].Object
                  /\ w.val = items[k].Object
                  /\ i[k] = items[k]
                  /\ o[k] = items[k].Object
                  /\ w.exp = IF items[k].Expiration = 0
                             THEN ZeroTime ELSE Unix(items[k].Expiration)

\* Witness of C15: GetWithExpiration has returned the expiration of an item
\* at the last moment the item is live, next to an item that never expires and
\* an Items map that holds both.
C15_Witness ==
    /\ last.op = "GetWithExpiration"
    /\ last.ret.found
    /\ last.ret.exp = Unix(now)
    /\ \E k \in Keys : items[k] # NoItem /\ items[k].Expiration = 0
    /\ Cardinality(DOMAIN ItemsLocked(items, now).m) = 2

\* What a caller reads in a map r that Items or Objects returned, when the
\* store holds its: the map as returned if it was made for the caller.
Seen(r, its) ==
    IF r.fresh THEN r.m ELSE [k \in {q \in Keys : its[q] # NoItem} |-> its[k]]

\* The keys stored in its that are expired at time t but not removed.
Unreaped(its, t) ==
    {k \in Keys : its[k] # NoItem /\ its[k].Expiration # 0 /\ t > its[k].Expiration}

\* C16: ItemCount counts the stored items, expired ones included, and Items
\* and Objects return exactly the live ones: ItemCount is the size of Items
\* plus the number of expired items not yet removed; and a step that changes
\* the store after Items or Objects returned leaves the returned map as it was.
C16_CountAndSnapshot ==
    [][/\ \A t \in Callers :
              /\ ItemCountCall(t)
                 => /\ last'.ret = Cardinality(DOMAIN ItemsLocked(items, now).m)
                                     + Cardinality(Unreaped(items, now))
                    /\ last'.ret >= Cardinality(DOMAIN ItemsLocked(items, now).m)
              /\ Items(t)
                 => /\ DOMAIN last'.ret.m = {k \in Keys : StoredLive(k, now)}
                    /\ \A k \in DOMAIN last'.ret.m : last'.ret.m[k] = items[k]
              /\ Objects(t)
                 => /\ DOMAIN last'.ret.m = {k \in Keys : StoredLive(k, now)}
                    /\ \A k \in DOMAIN last'.ret.m : last'.ret.m[k] = items[k].Object
       /\ (last.op \in {"Items", "Objects"} /\ items' # items)
          => Seen(last.ret, items') = Seen(last.ret, items)]_vars

\* Witness of C16: Items has returned one live item while two are stored, one
\* of them expired, and another caller is about to overwrite a key.
C16_Witness ==
    /\ last.op = "Items"
    /\ Cardinality(DOMAIN last.ret.m) = 1
    /\ ItemCount(items) = 2
    /\ Unreaped(items, now) # {}
    /\ \E t \in Callers : pc[t] = "entered" /\ call[t].op = "Set"

\* C17: OnEvicted(f) makes f the hook in place of the one before, and f is
\* never passed an entry that was removed before f was installed: the hook
\* that Delete or DeleteExpired calls for an entry is the one that was
\* installed when the entry was removed under the lock.
C17_NotRetroactive ==
    [][/\ \A t \in Callers, f \in Funcs : OnEvicted(t, f) => onEvicted' = f
       /\ \A t \in Callers, k \in Keys :
              (Delete(t, k) /\ pc'[t] = "hook") => running'[t] = onEvicted
       /\ \A t \in Threads :
              DeleteExpiredHook(t) => running'[t] = scan[t].hook]_vars

\* The state of the janitor as the spec names it.
Reaper ==
    IF pc[Jan] = "wait" THEN "idle"
    ELSE IF pc[Jan] \in {"entered", "loop", "hook"} THEN "sweeping"
    ELSE pc[Jan]

\* C18: a janitor that runs goes only from idle to sweeping, on a tick, from
\* sweeping to idle, when DeleteExpired returns, and from idle to stopped, on
\* the stop signal (or the process ends); and an expired item is removed in the
\* end with no caller's help: a sweep that has read a time after the item's
\* expiration is never left waiting for a lock whose holder cannot go on.
C18_ReaperSweeps ==
    [][/\ Reaper' # Reaper
          => \/ Reaper = "idle" /\ Reaper' = "sweeping" /\ JanitorTick
             \/ Reaper = "sweeping" /\ Reaper' = "idle" /\ DeleteExpiredReturn(Jan)
             \/ Reaper = "idle" /\ Reaper' = "stopped" /\ JanitorStop
             \/ Reaper = "sweeping" /\ Reaper' = "panicked"
       /\ ( /\ pc[Jan] = "entered"
            /\ stop = "empty"
            /\ Unreaped(items, local[Jan].now) # {} )
          => \/ Panicked
             \/ ENABLED Step(Jan)
             \/ \E t \in Callers : mu = t /\ ENABLED Step(t)]_vars

\* C19: a successful Add or Replace at time T leaves the key with the value
\* and the expiration that Set with the same arguments at time T leaves: T + d
\* for a positive (resolved) duration, 0 (never) otherwise.
C19_setStoresWhatSetStores ==
    [][\A t \in Callers, k \in Keys, d \in Durations :
          ( /\ Add(t, k, ValueOf[t], d) \/ Replace(t, k, ValueOf[t], d)
            /\ last'.err = "nil" )
          => items'[k] = Item(ValueOf[t], SetExpiration(d, defaultExpiration, now))]_vars

\* C20: no goroutine calls a nil hook: none has panicked on the call, and a
\* goroutine inside the hook runs a function.
C20_NoNilHookCall ==
    \A t \in Threads :
        /\ pc[t] # "panicked"
        /\ pc[t] = "hook" => running[t] # NilFn

====
